---------------------------- MODULE Spec2Model ----------------------------
(***************************************************************************)
(* durs: filesystem traversal and size aggregation (src/src/lib.rs).       *)
(*                                                                         *)
(* The three public functions ls, ls_rec and size are modelled over an     *)
(* explicit filesystem.  ls has no recursion and is one step; ls_rec and   *)
(* size call themselves, so their call stack is a sequence of frames and   *)
(* every loop iteration (one directory entry) is one step.                 *)
(***************************************************************************)
EXTENDS Integers, Sequences, FiniteSets

(***************************************************************************)
(* Bounds of the model.                                                    *)
(***************************************************************************)
\* number of filesystem nodes (node 1 is the root directory)
MaxNodes == 4
\* deepest call stack the model lets a traversal build; a traversal of a
\* tree of MaxNodes nodes needs at most MaxNodes frames
MaxStack == MaxNodes + 1

Nodes == 1..MaxNodes
\* the root directory
Root == 1
NoNode == 0
\* a name that no directory contains
NoName == 0

(***************************************************************************)
(* The filesystem.  A node is named by its number; a path is the sequence  *)
(* of names from the root.  Each node has a parent directory, a kind, the  *)
(* byte length its own (link-level) metadata reports, a symlink target     *)
(* (NoNode: dangling) and, for a directory, a fault:                       *)
(*   "noread"  the directory cannot be opened for enumeration,             *)
(*   "nostat"  its names can be listed but nothing below it can be stat'ed *)
(*             (no search permission),                                     *)
(*   "badent"  enumeration opens and then yields an error item.            *)
(***************************************************************************)
VARIABLES fs, dirOrder, pc, op, arg, stack, result, prev

vars == <<fs, dirOrder, pc, op, arg, stack, result, prev>>

Faults == {"ok", "noread", "nostat", "badent"}

\* the length reported for node n when it is not an empty file: distinct
\* powers of two, so that a total tells which nodes were counted.  size
\* accumulates in a u64; the lengths of a model filesystem sum to less than
\* 2^MaxNodes, so no addition of the model overflows
Weight(n) == 2 ^ (n - 1)

HasChild(par, n) == \E m \in Nodes : par[m] = n

Node(p, k, l, t, f) ==
  [parent |-> p, kind |-> k, len |-> l, target |-> t, fault |-> f]

\* an ordinary node: a readable directory or, for a leaf, a non-empty file
PlainChoices(par, n) ==
  {Node(par[n], "dir", Weight(n), NoNode, "ok")}
    \cup (IF n = Root \/ HasChild(par, n) THEN {}
          ELSE {Node(par[n], "file", Weight(n), NoNode, "ok")})

\* a special node: a directory with a fault or, for a leaf, an empty file
\* or a symlink to any node or to nothing
OddChoices(par, n) ==
  {Node(par[n], "dir", Weight(n), NoNode, f) : f \in Faults \ {"ok"}}
    \cup (IF n = Root \/ HasChild(par, n) THEN {}
          ELSE {Node(par[n], "file", 0, NoNode, "ok")}
                 \cup {Node(par[n], "link", Weight(n), t, "ok") :
                         t \in {NoNode} \cup Nodes})

\* every parent relation of a tree rooted at node 1 (a parent is an
\* earlier node, which covers every tree shape up to renaming)
ParentFns ==
  {par \in [Nodes -> {NoNode} \cup Nodes] :
     /\ par[Root] = NoNode
     /\ \A n \in Nodes \ {Root} : par[n] \in Root..(n - 1)}

\* the filesystems over nodes 1..n in which node `odd` (if any) is special
RECURSIVE BuildFs(_, _, _)
BuildFs(par, n, odd) ==
  IF n = 0 THEN {<<>>}
  ELSE {Append(f, c) :
          f \in BuildFs(par, n - 1, odd),
          c \in IF n = odd THEN OddChoices(par, n) ELSE PlainChoices(par, n)}

\* the filesystems of the model: a tree of readable directories and
\* non-empty files with at most one special node
FileSystems ==
  UNION {BuildFs(par, MaxNodes, odd) :
           par \in ParentFns, odd \in {NoNode} \cup Nodes}

(***************************************************************************)
(* Paths and name resolution, as the operating system does it.             *)
(***************************************************************************)
Join(path, name) == Append(path, name)

RECURSIVE PathOf(_)
PathOf(n) == IF n = NoNode THEN <<>> ELSE Append(PathOf(fs[n].parent), n)

\* the directories above node n
Ancestors[n \in Nodes] ==
  IF fs[n].parent = NoNode THEN {}
  ELSE {fs[n].parent} \cup Ancestors[fs[n].parent]

\* node n can be reached by name: every directory above it can be searched
Searchable(n) == \A a \in Ancestors[n] : fs[a].fault # "nostat"

\* follow symlinks from node n to what they finally name (NoNode: dangling,
\* unreachable, or a symlink loop)
Deref[n \in {NoNode} \cup Nodes, fuel \in 0..MaxNodes] ==
  IF n = NoNode THEN NoNode
  ELSE IF fs[n].kind # "link" THEN n
  ELSE IF fuel = 0 \/ fs[n].target = NoNode THEN NoNode
  ELSE IF ~ Searchable(fs[n].target) THEN NoNode
  ELSE Deref[fs[n].target, fuel - 1]

\* resolve the names `rest` below node cur: to go below cur it must be (or,
\* being a symlink, lead to) a directory that can be searched; the last
\* name is not followed
Walk[cur \in {NoNode} \cup Nodes, rest \in Seq({NoName} \cup Nodes)] ==
  IF rest = <<>> THEN cur
  ELSE LET d == Deref[cur, MaxNodes]
       IN IF d = NoNode THEN NoNode
          ELSE IF fs[d].kind # "dir" \/ fs[d].fault = "nostat" THEN NoNode
          ELSE IF Head(rest) \in Nodes /\ fs[Head(rest)].parent = d
               THEN Walk[Head(rest), Tail(rest)]
               ELSE NoNode

\* the node a path names, its last component not followed; every path
\* starts at the root
Lookup(path) ==
  IF path # <<>> /\ Head(path) = Root THEN Walk[Root, Tail(path)] ELSE NoNode

\* the node a path names, its last component followed
Resolve(path) == Deref[Lookup(path), MaxNodes]

(***************************************************************************)
(* Results.                                                                *)
(***************************************************************************)
NoResult == [tag |-> "None"]
Err == [tag |-> "Err"]
Ok(v) == [tag |-> "Ok", val |-> v]

\* std::fs::Metadata of node n, or the error of a path that names nothing
Metadata[n \in {NoNode} \cup Nodes] ==
  IF n = NoNode THEN Err
  ELSE Ok([is_dir |-> fs[n].kind = "dir", len |-> fs[n].len])

\* Path::metadata: the metadata of what the path finally names
MetadataFollow(path) == Metadata[Resolve(path)]

\* Path::symlink_metadata: the metadata of the node itself
SymlinkMetadata(path) == Metadata[Lookup(path)]

\* a DirEntry::metadata that would traverse a symlink entry
DirEntryMetadataFollow(dir, name) == MetadataFollow(Join(dir, name))

\* DirEntry::metadata: the standard library documents that it does not
\* traverse a symlink entry; it is the link-level metadata of dir/name
DirEntryMetadata(dir, name) == SymlinkMetadata(Join(dir, name))

\* the names of directory d in enumeration order, which the operating
\* system chooses: here by ascending or by descending name, the same each
\* time the unmodified directory is read
Listing[d \in Nodes, n \in 0..MaxNodes] ==
  IF n = 0 THEN <<>>
  ELSE LET m == IF dirOrder = "asc" THEN MaxNodes + 1 - n ELSE n
       IN IF fs[m].parent = d THEN <<m>> \o Listing[d, n - 1]
          ELSE Listing[d, n - 1]

ErrItem == -1

\* opening directory node d for enumeration: an error, or the iterator
\* over its entries
OpenDir[d \in {NoNode} \cup Nodes] ==
  IF d = NoNode THEN Err
  ELSE IF fs[d].kind # "dir" THEN Err
  ELSE IF fs[d].fault = "noread" THEN Err
  ELSE IF fs[d].fault = "badent" THEN Ok(<<ErrItem>>)
  ELSE Ok(Listing[d, MaxNodes])

\* Path::read_dir: opens the directory the path names (following a symlink)
ReadDir(path) == OpenDir[Resolve(path)]

(***************************************************************************)
(* ls                                                                      *)
(***************************************************************************)
\* a loop that stops one entry early
RECURSIVE LsLoopSkip(_, _, _)
LsLoopSkip(path, iter, entries) ==
  IF iter = <<>> THEN Ok(entries)
  ELSE IF Head(iter) = ErrItem THEN Err
  ELSE IF Tail(iter) = <<>> THEN Ok(entries)
  ELSE LsLoopSkip(path, Tail(iter), Append(entries, Join(path, Head(iter))))

\* the loop of ls (lines 30-32): `entries.push(entry?.path())`
RECURSIVE LsLoop(_, _, _)
LsLoop(path, iter, entries) ==
  IF iter = <<>> THEN Ok(entries)
  ELSE IF Head(iter) = ErrItem THEN Err
  ELSE LsLoop(path, Tail(iter), Append(entries, Join(path, Head(iter))))

ls(path) ==
  LET meta == SymlinkMetadata(path)
  IN IF meta.tag = "Err" THEN Err
     ELSE IF meta.val.is_dir
          THEN LET rd == ReadDir(path)
               IN IF rd.tag = "Err" THEN Err
                  ELSE LsLoop(path, rd.val, <<>>)
          ELSE Ok(<<path>>)

(***************************************************************************)
(* Frames of ls_rec and size.                                              *)
(***************************************************************************)
\* accumulators that would outlive a call and start from its result
NewFrameStale(path, iter) ==
  [path |-> path, iter |-> iter,
   entries |-> IF op = "ls_rec" /\ result.tag = "Ok" THEN result.val ELSE <<>>,
   bytes |-> IF op = "size" /\ result.tag = "Ok" THEN result.val ELSE 0]

\* a fresh activation: `let mut entries = Vec::new()`, `let mut bytes = 0`
NewFrame(path, iter) ==
  [path |-> path, iter |-> iter, entries |-> <<>>, bytes |-> 0]

\* a Vec::append that would put the moved elements in front
VecAppendFront(entries, more) == more \o entries

\* Vec::append: moves every element of `more` to the end of `entries`
VecAppend(entries, more) == entries \o more

Top == stack[Len(stack)]
Below == SubSeq(stack, 1, Len(stack) - 1)

\* an ls_rec that would list the directory itself before its entries
LsRecEnterSelf(path) ==
  LET meta == SymlinkMetadata(path)
  IN IF meta.tag = "Err" THEN Err
     ELSE IF meta.val.is_dir
          THEN LET rd == ReadDir(path)
               IN IF rd.tag = "Err" THEN Err
                  ELSE [tag |-> "Frame",
                        frame |-> [NewFrame(path, rd.val)
                                     EXCEPT !.entries = <<path>>]]
          ELSE [tag |-> "Ret", val |-> <<path>>]

\* an ls_rec that would treat a directory it cannot enumerate as empty
LsRecEnterLenient(path) ==
  LET meta == SymlinkMetadata(path)
  IN IF meta.tag = "Err" THEN Err
     ELSE IF meta.val.is_dir
          THEN LET rd == ReadDir(path)
               IN IF rd.tag = "Err"
                  THEN [tag |-> "Frame", frame |-> NewFrame(path, <<>>)]
                  ELSE [tag |-> "Frame", frame |-> NewFrame(path, rd.val)]
          ELSE [tag |-> "Ret", val |-> <<path>>]

\* what entering ls_rec(path) does before its loop: an error, an immediate
\* return (not a directory), or a frame that iterates the directory
LsRecEnter(path) ==
  LET meta == SymlinkMetadata(path)
  IN IF meta.tag = "Err" THEN Err
     ELSE IF meta.val.is_dir
          THEN LET rd == ReadDir(path)
               IN IF rd.tag = "Err" THEN Err
                  ELSE [tag |-> "Frame", frame |-> NewFrame(path, rd.val)]
          ELSE [tag |-> "Ret", val |-> <<path>>]

\* a size that would count the directory's own length
SizeEnterOwnLen(path) ==
  LET meta == SymlinkMetadata(path)
  IN IF meta.tag = "Err" THEN Err
     ELSE IF meta.val.is_dir
          THEN LET rd == ReadDir(path)
               IN IF rd.tag = "Err" THEN Err
                  ELSE [tag |-> "Frame",
                        frame |-> [NewFrame(path, rd.val)
                                     EXCEPT !.bytes = meta.val.len]]
          ELSE [tag |-> "Ret", val |-> meta.val.len]

\* what entering size(path) does before its loop
SizeEnter(path) ==
  LET meta == SymlinkMetadata(path)
  IN IF meta.tag = "Err" THEN Err
     ELSE IF meta.val.is_dir
          THEN LET rd == ReadDir(path)
               IN IF rd.tag = "Err" THEN Err
                  ELSE [tag |-> "Frame", frame |-> NewFrame(path, rd.val)]
          ELSE [tag |-> "Ret", val |-> meta.val.len]

(***************************************************************************)
(* The caller: one call of one function with one path, and once it has     *)
(* returned the same call again on the untouched filesystem.               *)
(***************************************************************************)
\* the paths a call is made with: every node, and a name that does not
\* exist below the last node (a directory, a file or a symlink)
Args == {PathOf(n) : n \in Nodes} \cup {Join(PathOf(MaxNodes), NoName)}

CanCall(o, path) ==
  \/ pc = "idle"
  \/ pc = "done" /\ prev = NoResult /\ op = o /\ arg = path

Begin(o, path) ==
  /\ CanCall(o, path)
  /\ op' = o
  /\ arg' = path
  /\ prev' = IF pc = "done" THEN result ELSE prev
  /\ UNCHANGED <<fs, dirOrder>>

Finish(r) ==
  /\ pc' = "done"
  /\ result' = r
  /\ stack' = <<>>

Continue(s) ==
  /\ pc' = "run"
  /\ result' = NoResult
  /\ stack' = s


LsCall(path) ==
  /\ Begin("ls", path)
  /\ Finish(ls(path))

LsRecCall(path) ==
  /\ Begin("ls_rec", path)
  /\ LET e == LsRecEnter(path)
     IN IF e.tag = "Err" THEN Finish(Err)
        ELSE IF e.tag = "Ret" THEN Finish(Ok(e.val))
        ELSE Continue(<<e.frame>>)

SizeCall(path) ==
  /\ Begin("size", path)
  /\ LET e == SizeEnter(path)
     IN IF e.tag = "Err" THEN Finish(Err)
        ELSE IF e.tag = "Ret" THEN Finish(Ok(e.val))
        ELSE Continue(<<e.frame>>)

Running(o) == pc = "run" /\ op = o /\ stack # <<>>

\* one iteration of the loop of ls_rec (lines 64-71)
LsRecEntry ==
  /\ Running("ls_rec")
  /\ Top.iter # <<>>
  /\ \E item \in {Head(Top.iter)} :
       IF item = ErrItem THEN Finish(Err)
       ELSE \E entry_path \in {Join(Top.path, item)},
               entry_meta \in {DirEntryMetadata(Top.path, item)} :
         IF entry_meta.tag = "Err" THEN Finish(Err)
         ELSE \E pushed \in {[Top EXCEPT !.iter = Tail(@),
                                         !.entries = Append(@, entry_path)]} :
           IF entry_meta.val.is_dir
           THEN \E e \in {LsRecEnter(entry_path)} :
                  IF e.tag = "Err" THEN Finish(Err)
                  ELSE IF e.tag = "Ret"
                       THEN Continue(Append(Below,
                              [pushed EXCEPT !.entries = VecAppend(@, e.val)]))
                       ELSE /\ Len(stack) < MaxStack
                            /\ Continue(Append(Append(Below, pushed), e.frame))
           ELSE Continue(Append(Below, pushed))
  /\ UNCHANGED <<fs, dirOrder, op, arg, prev>>

\* the loop of ls_rec is over: Ok(entries), appended to the caller's entries
LsRecReturn ==
  /\ Running("ls_rec")
  /\ Top.iter = <<>>
  /\ IF Len(stack) = 1 THEN Finish(Ok(Top.entries))
     ELSE LET caller == stack[Len(stack) - 1]
          IN Continue(Append(SubSeq(stack, 1, Len(stack) - 2),
                             [caller EXCEPT !.entries = VecAppend(@, Top.entries)]))
  /\ UNCHANGED <<fs, dirOrder, op, arg, prev>>

\* one iteration of the loop of size (lines 102-110)
SizeEntry ==
  /\ Running("size")
  /\ Top.iter # <<>>
  /\ \E item \in {Head(Top.iter)} :
       IF item = ErrItem THEN Finish(Err)
       ELSE \E entry_path \in {Join(Top.path, item)},
               entry_meta \in {DirEntryMetadata(Top.path, item)} :
         IF entry_meta.tag = "Err" THEN Finish(Err)
         ELSE \E next \in {[Top EXCEPT !.iter = Tail(@)]} :
           IF entry_meta.val.is_dir
           THEN \E e \in {SizeEnter(entry_path)} :
                  IF e.tag = "Err" THEN Finish(Err)
                  ELSE IF e.tag = "Ret"
                       THEN Continue(Append(Below,
                              [next EXCEPT !.bytes = @ + e.val]))
                       ELSE /\ Len(stack) < MaxStack
                            /\ Continue(Append(Append(Below, next), e.frame))
           ELSE Continue(Append(Below,
                  [next EXCEPT !.bytes = @ + entry_meta.val.len]))
  /\ UNCHANGED <<fs, dirOrder, op, arg, prev>>

\* the loop of size is over: Ok(bytes), added to the caller's bytes
SizeReturn ==
  /\ Running("size")
  /\ Top.iter = <<>>
  /\ IF Len(stack) = 1 THEN Finish(Ok(Top.bytes))
     ELSE LET caller == stack[Len(stack) - 1]
          IN Continue(Append(SubSeq(stack, 1, Len(stack) - 2),
                             [caller EXCEPT !.bytes = @ + Top.bytes]))
  /\ UNCHANGED <<fs, dirOrder, op, arg, prev>>

Init ==
  /\ fs \in FileSystems
  /\ dirOrder \in {"asc", "desc"}
  /\ pc = "idle"
  /\ op = "none"
  /\ arg = <<>>
  /\ stack = <<>>
  /\ result = NoResult
  /\ prev = NoResult

Step == LsRecEntry \/ LsRecReturn \/ SizeEntry \/ SizeReturn

Next ==
  \/ \E path \in Args : LsCall(path)
  \/ \E path \in Args : LsRecCall(path)
  \/ \E path \in Args : SizeCall(path)
  \/ LsRecEntry
  \/ LsRecReturn
  \/ SizeEntry
  \/ SizeReturn

Spec == Init /\ [][Next]_vars

\* the code is single-threaded and synchronous: a call that has started
\* keeps executing
FairSpec == Spec /\ WF_vars(Step)

(***************************************************************************)
(* What the properties speak of.                                           *)
(***************************************************************************)
Children(d) == {n \in Nodes : fs[n].parent = d}

\* the nodes at any depth below directory t
Under(t) == {n \in Nodes : t \in Ancestors[n]}

SeqSet(s) == {s[i] : i \in DOMAIN s}

\* p is a proper prefix of q: q lies below p
IsPrefix(p, q) == Len(p) < Len(q) /\ SubSeq(q, 1, Len(p)) = p

RECURSIVE SumLen(_)
SumLen(S) ==
  IF S = {} THEN 0
  ELSE LET n == CHOOSE m \in S : TRUE IN fs[n].len + SumLen(S \ {n})

\* the call of function o has returned
Done(o) == pc = "done" /\ op = o

\* the node the call's path names, by its own link metadata
T == Lookup(arg)

IsDir(n) == n # NoNode /\ fs[n].kind = "dir"
NonDir(n) == n # NoNode /\ fs[n].kind # "dir"

\* C1 as stated: size of a directory is the sum of the lengths of the
\* regular files below it
C1_SizeSumsRegularFiles ==
  (Done("size") /\ result.tag = "Ok" /\ IsDir(T))
    => result.val = SumLen({n \in Under(T) : fs[n].kind = "file"})

\* C1 amended: when size of a directory returns a total, it is the sum of the
\* link-level lengths of every entry below it that is not a directory
\* (regular files and symlinks alike); directories add nothing of their own
C1_SizeSumsNonDirectories ==
  (Done("size") /\ result.tag = "Ok" /\ IsDir(T))
    => result.val = SumLen({n \in Under(T) : fs[n].kind # "dir"})

C1_Witness ==
  /\ Done("size") /\ result.tag = "Ok" /\ IsDir(T)
  /\ \E l \in Under(T) : fs[l].kind = "link"
  /\ \E f \in Under(T) : fs[f].kind = "file" /\ fs[f].parent # T

\* C2: when ls_rec of a directory returns a listing, its paths are exactly
\* the full paths of the nodes at any depth below the directory, each once,
\* and the directory itself is not among them
C2_LsRecListsDescendants ==
  (Done("ls_rec") /\ result.tag = "Ok" /\ IsDir(T))
    => /\ SeqSet(result.val) = {PathOf(n) : n \in Under(T)}
       /\ Len(result.val) = Cardinality(Under(T))
       /\ arg \notin SeqSet(result.val)

C2_Witness ==
  /\ Done("ls_rec") /\ result.tag = "Ok" /\ IsDir(T)
  /\ \E n \in Under(T) : fs[n].parent # T
  /\ \E n \in Under(T) : fs[n].kind = "file"
  /\ Len(result.val) >= 3

\* C3: when ls of a directory returns a listing, it holds exactly one full
\* path per direct child and nothing from deeper levels
C3_LsListsChildren ==
  (Done("ls") /\ result.tag = "Ok" /\ IsDir(T))
    => /\ SeqSet(result.val) = {Join(arg, c) : c \in Children(T)}
       /\ Len(result.val) = Cardinality(Children(T))

C3_Witness ==
  /\ Done("ls") /\ result.tag = "Ok" /\ IsDir(T)
  /\ Cardinality(Children(T)) >= 2
  /\ \E d \in Children(T) : Children(d) # {}

\* C4: ls and ls_rec of an existing path that is not a directory by its own
\* link metadata (a file, or a symlink whatever it points to) return [path]
C4_NonDirectoryIsSingleton ==
  ((Done("ls") \/ Done("ls_rec")) /\ NonDir(T)) => result = Ok(<<arg>>)

C4_Witness ==
  /\ Done("ls_rec") /\ NonDir(T)
  /\ fs[T].kind = "link"
  /\ IsDir(fs[T].target) /\ Children(fs[T].target) # {}

\* every activation of ls_rec or size below the first is of a real directory
C5_FramesAreDirectories ==
  \A i \in DOMAIN stack :
    LET n == Lookup(stack[i].path)
    IN IsDir(n) /\ stack[i].path = PathOf(n)

\* a symlink is listed by ls_rec once, with nothing below it
C5_LinkListedAlone ==
  (Done("ls_rec") /\ result.tag = "Ok" /\ IsDir(T))
    => \A l \in Under(T) :
         fs[l].kind = "link"
           => /\ Cardinality({i \in DOMAIN result.val :
                                result.val[i] = PathOf(l)}) = 1
              /\ \A i \in DOMAIN result.val :
                   ~ IsPrefix(PathOf(l), result.val[i])

\* the step of size that meets a symlink entry adds the link's own length
\* and starts no activation
C5_SizeAddsLinkLength ==
  (/\ Running("size")
   /\ Top.iter # <<>>
   /\ Head(Top.iter) \in Nodes
   /\ fs[Head(Top.iter)].kind = "link"
   /\ pc' = "run")
    => /\ Len(stack') = Len(stack)
       /\ stack'[Len(stack)].bytes = Top.bytes + fs[Head(Top.iter)].len

\* C5: ls_rec and size classify every node, at every depth, by its own link
\* metadata and never recurse into a symlink: a symlink to a directory is
\* one entry of ls_rec with none of the target's contents, and size adds
\* only the link's own length for it
C5_SymlinksNotFollowed ==
  /\ [](C5_FramesAreDirectories /\ C5_LinkListedAlone)
  /\ [][C5_SizeAddsLinkLength]_vars

C5_Witness ==
  /\ Done("ls_rec") /\ result.tag = "Ok" /\ IsDir(T)
  /\ \E l \in Under(T) :
       /\ fs[l].kind = "link"
       /\ IsDir(fs[l].target) /\ Children(fs[l].target) # {}

\* C6: every call of ls_rec and of size that has started returns, whatever
\* symlinks (cyclic ones included) the filesystem holds
C6_CallsReturn == (pc = "run") ~> (pc = "done")

C6_Witness ==
  /\ pc = "done" /\ op \in {"ls_rec", "size"} /\ result.tag = "Ok" /\ IsDir(T)
  /\ \E l \in Under(T) :
       fs[l].kind = "link" /\ fs[l].target \in Ancestors[l]

\* a directory at or below t that cannot be enumerated, or one whose
\* entries cannot be stat'ed
Unreadable(t) ==
  \E d \in {t} \cup Under(t) :
    /\ fs[d].kind = "dir"
    /\ \/ fs[d].fault \in {"noread", "badent"}
       \/ fs[d].fault = "nostat" /\ Children(d) # {}

\* C7: a call whose path cannot be stat'ed returns an error, and ls_rec and
\* size return an error, never a listing or a total, when any directory of
\* the descent cannot be enumerated or any entry cannot be stat'ed
C7_NoPartialResults ==
  /\ (pc = "done" /\ T = NoNode) => result = Err
  /\ ((Done("ls_rec") \/ Done("size")) /\ IsDir(T) /\ Unreadable(T))
       => result = Err
  /\ pc = "done" => result.tag \in {"Ok", "Err"}

C7_Witness ==
  /\ Done("ls_rec") /\ result = Err /\ IsDir(T)
  /\ fs[T].fault = "ok"
  /\ \E d \in Under(T) : fs[d].fault = "noread"
  /\ \E f \in Children(T) : fs[f].kind = "file"

\* C8: the listing of ls_rec is depth-first pre-order: the paths below an
\* entry are one block that starts right after the entry
C8_PreOrder ==
  (Done("ls_rec") /\ result.tag = "Ok")
    => \A i \in DOMAIN result.val :
         LET below == {j \in DOMAIN result.val :
                         IsPrefix(result.val[i], result.val[j])}
         IN below = (i + 1)..(i + Cardinality(below))

C8_Witness ==
  /\ Done("ls_rec") /\ result.tag = "Ok"
  /\ Len(result.val) >= 3
  /\ IsPrefix(result.val[1], result.val[2])
  /\ ~ IsPrefix(result.val[1], result.val[3])

\* C9: size of an existing path that is not a directory returns the length
\* of the node itself: 0 for an empty file, the file's length otherwise, the
\* symlink's own length for a symlink
C9_SizeOfNonDirectory ==
  (Done("size") /\ NonDir(T)) => result = Ok(fs[T].len)

C9_Witness ==
  /\ Done("size") /\ NonDir(T)
  /\ fs[T].kind = "link"
  /\ fs[T].target # NoNode
  /\ fs[fs[T].target].kind = "file"
  /\ result = Ok(fs[T].len)

\* the second of two equal calls returns what the first returned
C10_SameResult == (pc = "done" /\ prev # NoResult) => result = prev

\* no step changes the filesystem
C10_FsUntouched == fs' = fs /\ dirOrder' = dirOrder

=============================================================================
